---- MODULE Spec2Model ----
(***************************************************************************)
(* MarkdownChunker (src/src/processors/chunker.py) as a state machine.     *)
(* A text is a sequence of one-character strings, so that str.split,       *)
(* str.strip, len and the three regular expressions of the chunker are     *)
(* computed character by character, as Python computes them.               *)
(***************************************************************************)
EXTENDS Integers, Sequences, FiniteSets, TLC

VARIABLES
    max_tokens,           \* self.max_tokens, fixed by __init__
    text,                 \* the argument of the running chunk() call
    pc,                   \* "parse" | "sections" | "split" | "done"
    lines, li,            \* _parse_sections: text.split('\n') and the loop index
    sections,             \* _parse_sections: sections, then chunk's sections
    current_headers,      \* _parse_sections: ['', '', '', '']
    current_content,      \* _parse_sections: accumulated lines
    current_level,        \* _parse_sections
    current_page_number,  \* _parse_sections
    chunks, si,           \* chunk: the result list and the section loop index
    paragraphs, pj,       \* _split_large_section: paragraphs and the loop index
    current_chunk,        \* _split_large_section: pending paragraphs
    split_chunks,         \* _split_large_section: its local chunks list
    content_from,         \* history: index of the first line held by current_content
    sec_span,             \* history: per section, <<first line, last line>> it was cut from
    chunk_sec,            \* history: per chunk, the index of its section
    chunk_path,           \* history: per chunk, "whole" | "atomic" | "split"
    rechunk_of,           \* history: the fragment whose content this call re-chunks
    parked,               \* a second call in progress, suspended: << >> or <<its frame>>
    returned,             \* history: what the finished calls returned, call by call
    calls,                \* history: the number of calls started on the instance
    mixed,                \* history: the running call overlaps another call
    cut,                  \* history: the running call was suspended between two steps
    embed_pc,             \* process_file: "idle" | "chunk" | "embed" | "done"
    batch_size,           \* process_file: vec_config.get('batch_size', 64)
    points,               \* process_file: the points list
    point_i,              \* process_file: the fragment the first loop is at
    batch_i,              \* process_file: i of the second loop, the offset of the next batch
    upserted,             \* history: the batches given to client.upsert, call by call
    clean_pc,             \* clean: "idle" | "step6" | "analyze" | "anonymize" | "except" |
                          \*        "return" | "done" | "raised"
    remove_pii,           \* self.remove_pii
    pii_analyzer,         \* self.pii_analyzer is not None
    clean_text,           \* clean: its local text
    pii_input,            \* _remove_pii: its argument
    results,              \* _remove_pii: what analyze returned, as positions
    raised_in,            \* history: the step of _remove_pii that raised, or "none"
    cleaned,              \* what clean returned
    run_pc,               \* run: "idle" | "begin" | "models" | "ocr" | "convert" | "clean" |
                          \*      "chunk" | "succeeded" | "except" | "vectorize" | "return" | "done"
    input_dir_exists,     \* self.input_dir.exists()
    pdf_files,            \* run: the PDFs found, numbered
    skip_ocr, skip_convert, skip_clean, skip_chunk, skip_vectorize,  \* run's flags
    models_ok,            \* history: initialize_models was called and returned
    idx,                  \* run: the loop index, from 1
    successful, failed,   \* run: the two counters
    failed_files,         \* run: the PDFs that failed
    stage_log,            \* history: <<pdf, stage, outcome>> of every stage that ran
    run_result            \* what run returned, << >> until it returns

vars == <<max_tokens, text, pc, lines, li, sections, current_headers,
          current_content, current_level, current_page_number, chunks, si,
          paragraphs, pj, current_chunk, split_chunks, content_from, sec_span,
          chunk_sec, chunk_path, rechunk_of, parked, returned, calls, mixed, cut,
          embed_pc, batch_size, points, point_i, batch_i, upserted,
          clean_pc, remove_pii, pii_analyzer, clean_text, pii_input, results,
          raised_in, cleaned,
          run_pc, input_dir_exists, pdf_files, skip_ocr, skip_convert, skip_clean,
          skip_chunk, skip_vectorize, models_ok, idx, successful, failed,
          failed_files, stage_log, run_result>>

embedVars == <<embed_pc, batch_size, points, point_i, batch_i, upserted>>
cleanVars == <<clean_pc, remove_pii, pii_analyzer, clean_text, pii_input, results,
               raised_in, cleaned>>
flagVars == <<input_dir_exists, pdf_files, skip_ocr, skip_convert, skip_clean,
              skip_chunk, skip_vectorize>>
runVars == <<run_pc, flagVars, models_ok, idx, successful, failed, failed_files,
             stage_log, run_result>>

---------------------------------------------------------------------------
(* Characters and strings *)

NL == "\n"

\* Python's \s and str.strip() whitespace, restricted to the alphabet used here
Whitespace == {" ", NL, "\t"}

Digits == {"0", "1", "2", "3", "4", "5", "6", "7", "8", "9"}

DigitVal(c) ==
    CASE c = "0" -> 0 [] c = "1" -> 1 [] c = "2" -> 2 [] c = "3" -> 3
      [] c = "4" -> 4 [] c = "5" -> 5 [] c = "6" -> 6 [] c = "7" -> 7
      [] c = "8" -> 8 [] c = "9" -> 9

RECURSIVE ParseInt(_)
\* int(s) for a string of decimal digits
ParseInt(s) ==
    IF s = <<>> THEN 0
    ELSE 10 * ParseInt(SubSeq(s, 1, Len(s) - 1)) + DigitVal(s[Len(s)])

\* s[i:i+len(t)] == t
StartsAt(s, i, t) ==
    /\ i >= 1
    /\ i + Len(t) - 1 <= Len(s)
    /\ SubSeq(s, i, i + Len(t) - 1) = t

\* t in s
Contains(s, t) == \E i \in 1..(Len(s) + 1) : StartsAt(s, i, t)

RECURSIVE SplitFrom(_, _, _, _)
SplitFrom(s, sep, start, i) ==
    IF i + Len(sep) - 1 > Len(s) THEN <<SubSeq(s, start, Len(s))>>
    ELSE IF StartsAt(s, i, sep)
         THEN <<SubSeq(s, start, i - 1)>> \o SplitFrom(s, sep, i + Len(sep), i + Len(sep))
         ELSE SplitFrom(s, sep, start, i + 1)

\* s.split(sep): left to right, non-overlapping; ''.split(sep) is ['']
Split(s, sep) == SplitFrom(s, sep, 1, 1)

RECURSIVE Join(_, _)
\* sep.join(parts)
Join(parts, sep) ==
    IF parts = <<>> THEN <<>>
    ELSE IF Len(parts) = 1 THEN parts[1]
    ELSE parts[1] \o sep \o Join(Tail(parts), sep)

RECURSIVE LStrip(_)
LStrip(s) == IF s # <<>> /\ s[1] \in Whitespace THEN LStrip(Tail(s)) ELSE s

RECURSIVE RStrip(_)
RStrip(s) ==
    IF s # <<>> /\ s[Len(s)] \in Whitespace THEN RStrip(SubSeq(s, 1, Len(s) - 1)) ELSE s

\* s.strip()
Strip(s) == RStrip(LStrip(s))

RECURSIVE SpanOf(_, _, _)
\* the index after the longest run of characters of set cs that starts at i
SpanOf(s, i, cs) == IF i <= Len(s) /\ s[i] \in cs THEN SpanOf(s, i + 1, cs) ELSE i

---------------------------------------------------------------------------
(* The patterns *)

PageOpen  == <<"<", "!", "-", "-">>
PageWord  == <<"P", "A", "G", "E", ":">>
PageClose == <<"-", "-", ">">>

\* the page pattern without its final '$'
MatchPageUnanchored(line) ==
    LET a  == Len(PageOpen) + 1
        b  == SpanOf(line, a, Whitespace)
        c  == b + Len(PageWord)
        d  == SpanOf(line, c, Whitespace)
        e  == SpanOf(line, d, Digits)
        f  == SpanOf(line, e, Whitespace)
        ok == /\ StartsAt(line, 1, PageOpen)
              /\ StartsAt(line, b, PageWord)
              /\ e > d
              /\ StartsAt(line, f, PageClose)
    IN  [ok |-> ok, digits |-> IF ok THEN SubSeq(line, d, e - 1) ELSE <<>>]

\* re.match(r'^<!--\s*PAGE:\s*(\d+)\s*-->$', line); group 1 in .digits
MatchPage(line) ==
    LET a  == Len(PageOpen) + 1
        b  == SpanOf(line, a, Whitespace)
        c  == b + Len(PageWord)
        d  == SpanOf(line, c, Whitespace)
        e  == SpanOf(line, d, Digits)
        f  == SpanOf(line, e, Whitespace)
        ok == /\ StartsAt(line, 1, PageOpen)
              /\ StartsAt(line, b, PageWord)
              /\ e > d
              /\ StartsAt(line, f, PageClose)
              /\ f + Len(PageClose) - 1 = Len(line)
    IN  [ok |-> ok, digits |-> IF ok THEN SubSeq(line, d, e - 1) ELSE <<>>]

\* re.match(r'^(#{1,4})\s+(.+)$', line) on a line without '\n':
\* group 1 has length .level, group 2 is .title.  \s+ is greedy and gives one
\* character back to .+ when nothing follows the whitespace.
MatchHeader(line) ==
    LET h     == SpanOf(line, 1, {"#"})
        w     == SpanOf(line, h, Whitespace)
        k     == h - 1
        title == IF w <= Len(line) THEN SubSeq(line, w, Len(line))
                 ELSE SubSeq(line, Len(line), Len(line))
        ok    == /\ k >= 1 /\ k <= 4
                 /\ w > h
                 /\ (w <= Len(line) \/ w - h >= 2)
    IN  [ok |-> ok, level |-> IF ok THEN k ELSE 0, title |-> IF ok THEN title ELSE <<>>]

\* ^ under re.MULTILINE
LineStart(s, p) == p = 1 \/ (p >= 2 /\ p <= Len(s) + 1 /\ s[p - 1] = NL)

\* re.search(r'^\s*[-*+]\s', text, re.MULTILINE)
HasBullet(s) ==
    \E p \in 1..Len(s) :
        /\ LineStart(s, p)
        /\ \E q \in p..SpanOf(s, p, Whitespace) :
              /\ q + 1 <= Len(s)
              /\ s[q] \in {"-", "*", "+"}
              /\ s[q + 1] \in Whitespace

\* re.search(r'^\s*\d+\.\s', text, re.MULTILINE)
HasNumbered(s) ==
    \E p \in 1..Len(s) :
        /\ LineStart(s, p)
        /\ \E q \in p..SpanOf(s, p, Whitespace) :
              LET e == SpanOf(s, q, Digits)
              IN  /\ e > q
                  /\ e + 1 <= Len(s)
                  /\ s[e] = "."
                  /\ s[e + 1] \in Whitespace

\* The character U+0060; the lexer accepts no backquote inside a string literal.
Backquote == "BQ"

Fence == <<Backquote, Backquote, Backquote>>

---------------------------------------------------------------------------
(* The pure helpers of MarkdownChunker *)

Sep == <<" ", ">", " ">>

ContextWord == <<"C", "o", "n", "t", "e", "x", "t", ":", " ">>

DocumentBody == <<"D", "o", "c", "u", "m", "e", "n", "t", " ", "B", "o", "d", "y">>

NonEmpty(h) == h # <<>>

\* _estimate_tokens
EstimateTokens(t) == Len(t) \div 4

\* the breadcrumb: ' > '.join([h for h in headers[:level] if h])
ContextPath(headers, level) == Join(SelectSeq(SubSeq(headers, 1, level), NonEmpty), Sep)

\* _create_section recording the level as a 0-based index
CreateSectionLevelOff(headers, level, content, page_number) ==
    [context_path |-> ContextPath(headers, level),
     level        |-> level - 1,
     content      |-> Strip(Join(content, <<NL>>)),
     headers      |-> headers,
     page_number  |-> page_number]

\* _create_section losing the first accumulated line
CreateSectionTail(headers, level, content, page_number) ==
    [context_path |-> ContextPath(headers, level),
     level        |-> level,
     content      |-> Strip(Join(Tail(content), <<NL>>)),
     headers      |-> headers,
     page_number  |-> page_number]

\* _create_section
CreateSection(headers, level, content, page_number) ==
    [context_path |-> ContextPath(headers, level),
     level        |-> level,
     content      |-> Strip(Join(content, <<NL>>)),
     headers      |-> headers,
     page_number  |-> page_number]

\* f"Context: {context_path}\n\n{body}"
Prefixed(context_path, body) == ContextWord \o context_path \o <<NL, NL>> \o body

\* _build_chunk_with_context
BuildChunkWithContext(section) ==
    IF section.context_path # <<>>
    THEN Prefixed(section.context_path, section.content)
    ELSE section.content

\* the budget test with '<' in place of '<='
FitsBudgetStrict(chunk_text) == EstimateTokens(chunk_text) < max_tokens

\* chunk, line 37: self._estimate_tokens(chunk_text) <= self.max_tokens
FitsBudget(chunk_text) == EstimateTokens(chunk_text) <= max_tokens

\* _is_atomic_block without the size test of lines 185-186
IsAtomicBlockNoLimit(t) == HasBullet(t) \/ HasNumbered(t) \/ Contains(t, Fence)

\* _is_atomic_block
IsAtomicBlock(t) ==
    IF EstimateTokens(t) > max_tokens THEN FALSE
    ELSE HasBullet(t) \/ HasNumbered(t) \/ Contains(t, Fence)

\* the dict with the default page in place of the section's
FragmentPageOne(content, section) ==
    [content     |-> content,
     context     |-> section.context_path,
     level       |-> section.level,
     page_number |-> 1]

\* the dict appended to a chunks list
Fragment(content, section) ==
    [content     |-> content,
     context     |-> section.context_path,
     level       |-> section.level,
     page_number |-> section.page_number]

\* chunk, lines 25-31: the dummy section, which has no 'headers' key
FallbackSection(t) ==
    [context_path |-> DocumentBody, level |-> 1, content |-> t, page_number |-> 1]

\* chunk without its fallback
NoFallback(secs, t) == FALSE

\* chunk, line 25: not sections and text.strip()
NeedsFallback(secs, t) == secs = <<>> /\ Strip(t) # <<>>

\* the header update without the loop that clears the child headers
UpdateHeadersNoClear(headers, level, title) ==
    LET slot(i) == IF i = level THEN title ELSE headers[i]
    IN  <<slot(1), slot(2), slot(3), slot(4)>>

\* _parse_sections, lines 87-91: set the slot of the header, clear the deeper slots
UpdateHeaders(headers, level, title) ==
    LET slot(i) == IF i = level THEN title ELSE IF i > level THEN <<>> ELSE headers[i]
    IN  <<slot(1), slot(2), slot(3), slot(4)>>

\* the paragraph split cutting at every line break
ParagraphsByLine(content) == Split(content, <<NL>>)

\* _split_large_section, line 148
Paragraphs(content) == Split(content, <<NL, NL>>)

\* the flush test that never flushes
ShouldFlushNever(test_chunk, pending) == FALSE

\* the flush test that lets the buffer run one token over the budget
ShouldFlushLate(test_chunk, pending) ==
    EstimateTokens(test_chunk) > max_tokens + 1 /\ pending # <<>>

\* the flush test without "and current_chunk"
ShouldFlushAlways(test_chunk, pending) == EstimateTokens(test_chunk) > max_tokens

\* _split_large_section, line 155
ShouldFlush(test_chunk, pending) == EstimateTokens(test_chunk) > max_tokens /\ pending # <<>>

---------------------------------------------------------------------------
(* The inputs: documents of at most MaxPieces pieces, one piece per line    *)
(* (the bullet list and the two paragraphs are pieces of several lines),   *)
(* joined by '\n'.  The pieces of MorePieces appear in the documents of    *)
(* fewer than MaxPieces pieces.                                            *)

MaxPieces == 3

BlankLine   == <<>>
SpaceLine   == <<" ">>
TextLine    == <<"a", "a", "a", "a">>
HeaderT     == <<"#", " ", "T">>
HeaderU     == <<"#", "#", " ", "U">>
HeaderW     == <<"#", "#", "#", " ", "W">>
HeaderSep   == <<"#", " ", "A", " ", ">", " ", "B">>
PageLine    == <<"<", "!", "-", "-", " ", "P", "A", "G", "E", ":", " ", "2", " ", "-", "-", ">">>
BulletLine  == <<"-", " ", "a">>
BulletList  == Join(<<BulletLine, BulletLine, BulletLine, BulletLine, BulletLine>>, <<NL>>)

\* two paragraphs: two text lines with a blank line between them
TwoParagraphs == TextLine \o <<NL, NL>> \o TextLine

Pieces ==
    {BlankLine, SpaceLine, TextLine, HeaderT, HeaderU, HeaderW, HeaderSep, PageLine,
     BulletList, TwoParagraphs}

\* a marker whose digit string is "0"
PageZero     == <<"<", "!", "-", "-", " ", "P", "A", "G", "E", ":", " ", "0", " ", "-", "-", ">">>
\* lines that are almost a header: five '#', and '#' with no whitespace after it
HeaderFive   == <<"#", "#", "#", "#", "#", " ", "x">>
HeaderTight  == <<"#", "x">>
\* lines that are almost a marker: a page that is no number, a leading
\* character, trailing characters
PageWordy    == <<"<", "!", "-", "-", " ", "P", "A", "G", "E", ":", " ", "x", " ", "-", "-", ">">>
PageLead     == <<" ">> \o PageLine
PageTrail    == PageLine \o <<" ", "x">>
NumberedLine == <<"1", ".", " ", "a">>
FenceLine    == Fence
\* three paragraphs: two of one character, one of eight
ShortParagraphs ==
    <<"a", NL, NL, "a", NL, NL, "a", "a", "a", "a", "a", "a", "a", "a">>

\* a text line before and a text line after a page marker
PagedText == Join(<<TextLine, PageLine, TextLine>>, <<NL>>)

MorePieces ==
    {PageZero, HeaderFive, HeaderTight, PageWordy, PageLead, PageTrail, NumberedLine,
     FenceLine, ShortParagraphs, PagedText}

Documents ==
    UNION {[1..n -> Pieces] : n \in 0..MaxPieces}
      \cup UNION {[1..n -> Pieces \cup MorePieces] : n \in 0..(MaxPieces - 1)}

Inputs == {Join(d, <<NL>>) : d \in Documents}

\* the token budgets a chunker is constructed with
Budgets == {1, 4}

\* the calls made on one instance, one after the other or two at a time
MaxCalls == 3

\* the documents of these calls
CallDocuments ==
    {<<HeaderT, BulletList>>, <<HeaderU, TextLine>>, <<PageLine, TwoParagraphs>>,
     <<TextLine>>}

CallTexts == {Join(d, <<NL>>) : d \in CallDocuments}

---------------------------------------------------------------------------
(* The state machine *)

\* the vectorizer is not running
EmbedIdle ==
    /\ embed_pc = "idle"
    /\ batch_size = 1
    /\ points = <<>>
    /\ point_i = 1
    /\ batch_i = 0
    /\ upserted = <<>>

\* the cleaner is not running
CleanIdle ==
    /\ clean_pc = "idle"
    /\ remove_pii = FALSE
    /\ pii_analyzer = FALSE
    /\ clean_text = <<>>
    /\ pii_input = <<>>
    /\ results = {}
    /\ raised_in = "none"
    /\ cleaned = <<>>

\* the pipeline is not running
RunIdle ==
    /\ run_pc = "idle"
    /\ input_dir_exists = TRUE
    /\ pdf_files = <<>>
    /\ skip_ocr = FALSE
    /\ skip_convert = FALSE
    /\ skip_clean = FALSE
    /\ skip_chunk = FALSE
    /\ skip_vectorize = FALSE
    /\ models_ok = FALSE
    /\ idx = 1
    /\ successful = 0
    /\ failed = 0
    /\ failed_files = <<>>
    /\ stage_log = <<>>
    /\ run_result = <<>>

\* MarkdownChunker(max_tokens) and the first call chunk(text)
ChunkerInit(budgets, texts) ==
    /\ max_tokens \in budgets
    /\ text \in texts
    /\ pc = "parse"
    /\ lines = Split(text, <<NL>>)
    /\ li = 1
    /\ sections = <<>>
    /\ current_headers = <<<<>>, <<>>, <<>>, <<>>>>
    /\ current_content = <<>>
    /\ current_level = 0
    /\ current_page_number = 1
    /\ chunks = <<>>
    /\ si = 1
    /\ paragraphs = <<>>
    /\ pj = 1
    /\ current_chunk = <<>>
    /\ split_chunks = <<>>
    /\ content_from = 0
    /\ sec_span = <<>>
    /\ chunk_sec = <<>>
    /\ chunk_path = <<>>
    /\ rechunk_of = <<>>
    /\ parked = <<>>
    /\ returned = <<>>
    /\ calls = 1
    /\ mixed = FALSE
    /\ cut = FALSE

Init ==
    /\ ChunkerInit(Budgets, Inputs)
    /\ EmbedIdle
    /\ CleanIdle
    /\ RunIdle

\* the previous section saved only if its content is not blank
FlushedIfInk(secs) ==
    IF Strip(Join(current_content, <<NL>>)) # <<>>
    THEN Append(secs, CreateSection(current_headers, current_level,
                                    current_content, current_page_number))
    ELSE secs

\* the previous section saved after the header update instead of before it
FlushedUnderNext(secs) ==
    LET header == li <= Len(lines) /\ ~MatchPage(lines[li]).ok /\ MatchHeader(lines[li]).ok
        level  == IF header THEN MatchHeader(lines[li]).level ELSE current_level
        heads  == IF header
                  THEN UpdateHeaders(current_headers, level, MatchHeader(lines[li]).title)
                  ELSE current_headers
    IN  IF current_content # <<>>
        THEN Append(secs, CreateSection(heads, level, current_content, current_page_number))
        ELSE secs

\* _parse_sections, lines 64-68, 78-82: save the previous section if there is content
Flushed(secs) ==
    IF current_content # <<>>
    THEN Append(secs, CreateSection(current_headers, current_level,
                                    current_content, current_page_number))
    ELSE secs

FlushedSpan(spans) ==
    IF current_content # <<>> THEN Append(spans, <<content_from, li - 1>>) ELSE spans

splitVars == <<paragraphs, pj, current_chunk, split_chunks>>
chunkVars == <<chunks, si, chunk_sec, chunk_path>>
callVars == <<parked, returned, calls, mixed, cut, embedVars, cleanVars, runVars>>

\* a page marker line that also ends the header context
ParsePageMarkerNewContext ==
    /\ pc = "parse"
    /\ li <= Len(lines)
    /\ MatchPage(lines[li]).ok
    /\ sections' = Flushed(sections)
    /\ sec_span' = FlushedSpan(sec_span)
    /\ current_content' = <<>>
    /\ current_page_number' = ParseInt(MatchPage(lines[li]).digits)
    /\ current_level' = 0
    /\ li' = li + 1
    /\ UNCHANGED <<max_tokens, text, pc, lines, current_headers, content_from, rechunk_of>>
    /\ UNCHANGED <<splitVars, chunkVars, callVars>>

\* _parse_sections, lines 61-71: a page marker line
ParsePageMarker ==
    /\ pc = "parse"
    /\ li <= Len(lines)
    /\ MatchPage(lines[li]).ok
    /\ sections' = Flushed(sections)
    /\ sec_span' = FlushedSpan(sec_span)
    /\ current_content' = <<>>
    /\ current_page_number' = ParseInt(MatchPage(lines[li]).digits)
    /\ li' = li + 1
    /\ UNCHANGED <<max_tokens, text, pc, lines, current_headers, current_level,
                   content_from, rechunk_of>>
    /\ UNCHANGED <<splitVars, chunkVars, callVars>>

\* _parse_sections, lines 74-91: a header line
ParseHeader ==
    /\ pc = "parse"
    /\ li <= Len(lines)
    /\ ~MatchPage(lines[li]).ok
    /\ MatchHeader(lines[li]).ok
    /\ sections' = Flushed(sections)
    /\ sec_span' = FlushedSpan(sec_span)
    /\ current_content' = <<>>
    /\ current_level' = MatchHeader(lines[li]).level
    /\ current_headers' = UpdateHeaders(current_headers, MatchHeader(lines[li]).level,
                                        MatchHeader(lines[li]).title)
    /\ li' = li + 1
    /\ UNCHANGED <<max_tokens, text, pc, lines, current_page_number,
                   content_from, rechunk_of>>
    /\ UNCHANGED <<splitVars, chunkVars, callVars>>

\* _parse_sections, lines 92-93: any other line
ParseContent ==
    /\ pc = "parse"
    /\ li <= Len(lines)
    /\ ~MatchPage(lines[li]).ok
    /\ ~MatchHeader(lines[li]).ok
    /\ current_content' = Append(current_content, lines[li])
    /\ content_from' = IF current_content = <<>> THEN li ELSE content_from
    /\ li' = li + 1
    /\ UNCHANGED <<max_tokens, text, pc, lines, sections, sec_span, current_headers,
                   current_level, current_page_number, rechunk_of>>
    /\ UNCHANGED <<splitVars, chunkVars, callVars>>

\* _parse_sections, lines 95-101, and chunk, lines 21-31: the last section is
\* saved, the sections are returned to chunk, which adds the fallback section
ParseReturn ==
    /\ pc = "parse"
    /\ li > Len(lines)
    /\ LET parsed == Flushed(sections)
       IN  IF NeedsFallback(parsed, text)
           THEN /\ sections' = <<FallbackSection(text)>>
                /\ sec_span' = <<<<1, Len(lines)>>>>
           ELSE /\ sections' = parsed
                /\ sec_span' = FlushedSpan(sec_span)
    /\ current_content' = <<>>
    /\ pc' = "sections"
    /\ UNCHANGED <<max_tokens, text, lines, li, current_headers, current_level,
                   current_page_number, content_from, rechunk_of>>
    /\ UNCHANGED <<splitVars, chunkVars, callVars>>

parseVars == <<lines, li, sections, current_headers, current_content, current_level,
               current_page_number, content_from, sec_span>>

\* chunk, lines 34-43: the section fits the budget and is kept whole
ChunkWhole ==
    /\ pc = "sections"
    /\ si <= Len(sections)
    /\ LET section    == sections[si]
           chunk_text == BuildChunkWithContext(section)
       IN  /\ FitsBudget(chunk_text)
           /\ chunks' = Append(chunks, Fragment(chunk_text, section))
    /\ chunk_sec' = Append(chunk_sec, si)
    /\ chunk_path' = Append(chunk_path, "whole")
    /\ si' = si + 1
    /\ UNCHANGED <<max_tokens, text, pc, rechunk_of, parseVars, splitVars, callVars>>

\* chunk, lines 44-46, _split_large_section, lines 134-145: an atomic block
SplitAtomic ==
    /\ pc = "sections"
    /\ si <= Len(sections)
    /\ LET section == sections[si]
       IN  /\ ~FitsBudget(BuildChunkWithContext(section))
           /\ IsAtomicBlock(section.content)
           /\ chunks' = Append(chunks, Fragment(BuildChunkWithContext(section), section))
    /\ chunk_sec' = Append(chunk_sec, si)
    /\ chunk_path' = Append(chunk_path, "atomic")
    /\ si' = si + 1
    /\ UNCHANGED <<max_tokens, text, pc, rechunk_of, parseVars, splitVars, callVars>>

\* chunk, lines 44-46, _split_large_section, lines 134-149: the paragraph split begins
SplitBegin ==
    /\ pc = "sections"
    /\ si <= Len(sections)
    /\ LET section == sections[si]
       IN  /\ ~FitsBudget(BuildChunkWithContext(section))
           /\ ~IsAtomicBlock(section.content)
           /\ paragraphs' = Paragraphs(section.content)
    /\ current_chunk' = <<>>
    /\ split_chunks' = <<>>
    /\ pj' = 1
    /\ pc' = "split"
    /\ UNCHANGED <<max_tokens, text, rechunk_of, parseVars, chunkVars, callVars>>

\* '\n\n'.join(pending)
ChunkContent(pending) == Join(pending, <<NL, NL>>)

\* _split_large_section, lines 151-166: one paragraph
SplitParagraph ==
    /\ pc = "split"
    /\ pj <= Len(paragraphs)
    /\ LET section      == sections[si]
           para         == paragraphs[pj]
           test_content == ChunkContent(Append(current_chunk, para))
           test_chunk   == Prefixed(section.context_path, test_content)
       IN  IF ShouldFlush(test_chunk, current_chunk)
           THEN /\ split_chunks' = Append(split_chunks,
                       Fragment(Prefixed(section.context_path, ChunkContent(current_chunk)),
                                section))
                /\ current_chunk' = <<para>>
           ELSE /\ split_chunks' = split_chunks
                /\ current_chunk' = Append(current_chunk, para)
    /\ pj' = pj + 1
    /\ UNCHANGED <<max_tokens, text, pc, rechunk_of, paragraphs, parseVars, chunkVars>>
    /\ UNCHANGED callVars

\* the result list extended at its front
ExtendFront(list, more) == more \o list

\* chunk, line 46: chunks.extend(split_chunks)
Extend(list, more) == list \o more

\* the split returning without adding the remaining content
WithoutRemaining(done, pending, section) == done

\* _split_large_section, lines 168-176: add remaining content
WithRemaining(done, pending, section) ==
    IF pending # <<>>
    THEN Append(done, Fragment(Prefixed(section.context_path, ChunkContent(pending)),
                               section))
    ELSE done

\* _split_large_section, lines 168-178, and chunk, line 46: the remaining
\* paragraphs are added and chunk extends its list with the result
SplitReturn ==
    /\ pc = "split"
    /\ pj > Len(paragraphs)
    /\ LET section == sections[si]
           result  == WithRemaining(split_chunks, current_chunk, section)
       IN  /\ chunks' = Extend(chunks, result)
           /\ chunk_sec' = Extend(chunk_sec, [k \in 1..Len(result) |-> si])
           /\ chunk_path' = Extend(chunk_path, [k \in 1..Len(result) |-> "split"])
    /\ split_chunks' = <<>>
    /\ current_chunk' = <<>>
    /\ si' = si + 1
    /\ pc' = "sections"
    /\ UNCHANGED <<max_tokens, text, rechunk_of, paragraphs, pj, parseVars, callVars>>

\* chunk, line 48
ChunkReturn ==
    /\ pc = "sections"
    /\ si > Len(sections)
    /\ pc' = "done"
    /\ UNCHANGED <<max_tokens, text, rechunk_of, parseVars, splitVars, chunkVars>>
    /\ UNCHANGED callVars

\* a second call of chunk on the same instance, on the content of a fragment
\* the first call returned
Rechunk ==
    /\ pc = "done"
    /\ rechunk_of = <<>>
    /\ \E k \in 1..Len(chunks) :
          /\ rechunk_of' = <<chunks[k]>>
          /\ text' = chunks[k].content
          /\ lines' = Split(chunks[k].content, <<NL>>)
    /\ pc' = "parse"
    /\ li' = 1
    /\ sections' = <<>>
    /\ current_headers' = <<<<>>, <<>>, <<>>, <<>>>>
    /\ current_content' = <<>>
    /\ current_level' = 0
    /\ current_page_number' = 1
    /\ chunks' = <<>>
    /\ si' = 1
    /\ paragraphs' = <<>>
    /\ pj' = 1
    /\ current_chunk' = <<>>
    /\ split_chunks' = <<>>
    /\ content_from' = 0
    /\ sec_span' = <<>>
    /\ chunk_sec' = <<>>
    /\ chunk_path' = <<>>
    /\ UNCHANGED <<max_tokens, callVars>>

Next ==
    \/ ParsePageMarker
    \/ ParseHeader
    \/ ParseContent
    \/ ParseReturn
    \/ ChunkWhole
    \/ SplitAtomic
    \/ SplitBegin
    \/ SplitParagraph
    \/ SplitReturn
    \/ ChunkReturn
    \/ Rechunk

Spec == Init /\ [][Next]_vars

---------------------------------------------------------------------------
(* Several calls on one instance: one after the other, or two at a time    *)
(* with their steps interleaved.  The running call is in the variables,    *)
(* the suspended one in parked.                                            *)

\* the ancestry array kept from the previous call
HeadersKept(previous) == previous

\* _parse_sections, line 54: current_headers = ['', '', '', ''], a new list per call
HeadersAtEntry(previous) == <<<<>>, <<>>, <<>>, <<>>>>

\* the ancestry array being one array shared by the calls
HeadersShared(own, other) == other

\* _parse_sections, line 54: current_headers is a local name of the call, so a
\* resumed call finds its own array, not the array of the call that ran meanwhile
HeadersOnResume(own, other) == own

\* the locals of the running call
Frame ==
    [text |-> text, pc |-> pc, lines |-> lines, li |-> li, sections |-> sections,
     current_headers |-> current_headers, current_content |-> current_content,
     current_level |-> current_level, current_page_number |-> current_page_number,
     chunks |-> chunks, si |-> si, paragraphs |-> paragraphs, pj |-> pj,
     current_chunk |-> current_chunk, split_chunks |-> split_chunks,
     content_from |-> content_from, sec_span |-> sec_span, chunk_sec |-> chunk_sec,
     chunk_path |-> chunk_path, mixed |-> mixed, cut |-> cut]

\* what a finished call returned
Outcome(frame) ==
    [text |-> frame.text, chunks |-> frame.chunks, mixed |-> frame.mixed,
     cut |-> frame.cut]

\* the running call has taken a step and has not returned
Underway == pc # "done" /\ (pc # "parse" \/ li > 1)

\* chunk, lines 14-22, and _parse_sections, lines 52-57: a call begins
EnterCall(t) ==
    /\ text' = t
    /\ lines' = Split(t, <<NL>>)
    /\ pc' = "parse"
    /\ li' = 1
    /\ sections' = <<>>
    /\ current_headers' = HeadersAtEntry(current_headers)
    /\ current_content' = <<>>
    /\ current_level' = 0
    /\ current_page_number' = 1
    /\ chunks' = <<>>
    /\ si' = 1
    /\ paragraphs' = <<>>
    /\ pj' = 1
    /\ current_chunk' = <<>>
    /\ split_chunks' = <<>>
    /\ content_from' = 0
    /\ sec_span' = <<>>
    /\ chunk_sec' = <<>>
    /\ chunk_path' = <<>>
    /\ calls' = calls + 1
    /\ cut' = FALSE
    /\ UNCHANGED <<max_tokens, rechunk_of, embedVars, cleanVars, runVars>>

\* the caller takes what the finished calls returned and calls chunk again
Call ==
    /\ pc = "done"
    /\ IF parked = <<>> THEN TRUE ELSE parked[1].pc = "done"
    /\ calls < MaxCalls
    /\ returned' = returned \o <<Outcome(Frame)>>
                      \o (IF parked = <<>> THEN <<>> ELSE <<Outcome(parked[1])>>)
    /\ parked' = <<>>
    /\ mixed' = FALSE
    /\ \E t \in CallTexts : EnterCall(t)

\* a second call begins, on another document, while the running call is
\* suspended
Spawn ==
    /\ pc # "done"
    /\ parked = <<>>
    /\ calls < MaxCalls
    /\ parked' = <<[Frame EXCEPT !.mixed = TRUE, !.cut = Underway]>>
    /\ mixed' = TRUE
    /\ \E t \in CallTexts \ {text} : EnterCall(t)
    /\ UNCHANGED returned

\* the running call is suspended between two steps and the other call resumes
Switch ==
    /\ parked # <<>>
    /\ parked[1].pc # "done"
    /\ parked' = <<[Frame EXCEPT !.cut = cut \/ Underway]>>
    /\ text' = parked[1].text
    /\ pc' = parked[1].pc
    /\ lines' = parked[1].lines
    /\ li' = parked[1].li
    /\ sections' = parked[1].sections
    /\ current_headers' = HeadersOnResume(parked[1].current_headers, current_headers)
    /\ current_content' = parked[1].current_content
    /\ current_level' = parked[1].current_level
    /\ current_page_number' = parked[1].current_page_number
    /\ chunks' = parked[1].chunks
    /\ si' = parked[1].si
    /\ paragraphs' = parked[1].paragraphs
    /\ pj' = parked[1].pj
    /\ current_chunk' = parked[1].current_chunk
    /\ split_chunks' = parked[1].split_chunks
    /\ content_from' = parked[1].content_from
    /\ sec_span' = parked[1].sec_span
    /\ chunk_sec' = parked[1].chunk_sec
    /\ chunk_path' = parked[1].chunk_path
    /\ mixed' = parked[1].mixed
    /\ cut' = parked[1].cut
    /\ UNCHANGED <<max_tokens, rechunk_of, returned, calls, embedVars, cleanVars, runVars>>

InitCalls == Init /\ text \in CallTexts

NextCalls ==
    \/ ParsePageMarker
    \/ ParseHeader
    \/ ParseContent
    \/ ParseReturn
    \/ ChunkWhole
    \/ SplitAtomic
    \/ SplitBegin
    \/ SplitParagraph
    \/ SplitReturn
    \/ ChunkReturn
    \/ Call
    \/ Spawn
    \/ Switch

SpecCalls == InitCalls /\ [][NextCalls]_vars

---------------------------------------------------------------------------
(* MedicalVectorizer.process_file (src/src/storage/embedder.py): the      *)
(* fragments of one file are embedded, wrapped into points and upserted   *)
(* in batches.                                                             *)

\* the documents given to process_file, as cleaner.clean returned them
EmbedDocuments ==
    {<<TextLine>>,
     <<HeaderT, BulletList>>,
     <<HeaderT, TextLine, PageLine, TextLine>>,
     <<HeaderT, TextLine, HeaderU, TextLine, PageLine, TwoParagraphs>>,
     <<TextLine, HeaderT, TextLine, HeaderU, TextLine, PageLine, TextLine,
       HeaderSep, TextLine>>}

EmbedTexts == {Join(d, <<NL>>) : d \in EmbedDocuments}

\* vec_config.get('batch_size', 64), line 106: the configured sizes
BatchSizes == {1, 2, 3}

\* str(uuid.uuid4()), line 123: an identifier drawn anew for every point
Ids == {"u1", "u2"}

\* file_path.name, line 114
Source == "file.md"

\* self.embedding_model.encode(content).tolist(), line 110: the vector is a
\* function of the content given to the model and of nothing else
Encode(content) == <<"vector of", content>>

\* a point whose chunk_index is counted from 1
PointCountedFromOne(id, chunk, i) ==
    [id      |-> id,
     vector  |-> Encode(chunk.content),
     payload |-> [source      |-> Source,
                  context     |-> chunk.context,
                  level       |-> chunk.level,
                  chunk_index |-> i + 1,
                  page_number |-> chunk.page_number]]

\* lines 110-126: the point of fragment chunk, the i-th of enumerate(chunks)
Point(id, chunk, i) ==
    [id      |-> id,
     vector  |-> Encode(chunk.content),
     payload |-> [source      |-> Source,
                  context     |-> chunk.context,
                  level       |-> chunk.level,
                  chunk_index |-> i,
                  page_number |-> chunk.page_number]]

\* a batch that begins one point late
BatchSkipping(pts, i, size) ==
    SubSeq(pts, i + 2, IF i + size < Len(pts) THEN i + size ELSE Len(pts))

\* line 131: points[i:i + batch_size]
Batch(pts, i, size) ==
    SubSeq(pts, i + 1, IF i + size < Len(pts) THEN i + size ELSE Len(pts))

\* lines 97-106: chunk has returned; no fragments ends the call, otherwise the
\* points list is created
EmbedBegin ==
    /\ embed_pc = "chunk"
    /\ pc = "done"
    /\ embed_pc' = IF chunks = <<>> THEN "done" ELSE "embed"
    /\ points' = <<>>
    /\ point_i' = 1
    /\ batch_i' = 0
    /\ UNCHANGED <<batch_size, upserted, cleanVars, runVars>>
    /\ UNCHANGED <<max_tokens, text, pc, rechunk_of, parseVars, splitVars, chunkVars,
                   parked, returned, calls, mixed, cut>>

\* lines 108-127: one pass of the first loop
EmbedPoint ==
    /\ embed_pc = "embed"
    /\ point_i <= Len(chunks)
    /\ \E id \in Ids :
           points' = Append(points, Point(id, chunks[point_i], point_i - 1))
    /\ point_i' = point_i + 1
    /\ UNCHANGED <<embed_pc, batch_size, batch_i, upserted, cleanVars, runVars>>
    /\ UNCHANGED <<max_tokens, text, pc, rechunk_of, parseVars, splitVars, chunkVars,
                   parked, returned, calls, mixed, cut>>

\* lines 130-135: one pass of the second loop
UpsertBatch ==
    /\ embed_pc = "embed"
    /\ point_i > Len(chunks)
    /\ batch_i < Len(points)
    /\ upserted' = Append(upserted, Batch(points, batch_i, batch_size))
    /\ batch_i' = batch_i + batch_size
    /\ UNCHANGED <<embed_pc, batch_size, points, point_i, cleanVars, runVars>>
    /\ UNCHANGED <<max_tokens, text, pc, rechunk_of, parseVars, splitVars, chunkVars,
                   parked, returned, calls, mixed, cut>>

\* line 137: process_file returns
EmbedReturn ==
    /\ embed_pc = "embed"
    /\ point_i > Len(chunks)
    /\ batch_i >= Len(points)
    /\ embed_pc' = "done"
    /\ UNCHANGED <<batch_size, points, point_i, batch_i, upserted, cleanVars, runVars>>
    /\ UNCHANGED <<max_tokens, text, pc, rechunk_of, parseVars, splitVars, chunkVars,
                   parked, returned, calls, mixed, cut>>

InitEmbed ==
    /\ ChunkerInit(Budgets, EmbedTexts)
    /\ embed_pc = "chunk"
    /\ batch_size \in BatchSizes
    /\ points = <<>>
    /\ point_i = 1
    /\ batch_i = 0
    /\ upserted = <<>>
    /\ CleanIdle
    /\ RunIdle

NextEmbed ==
    \/ ParsePageMarker
    \/ ParseHeader
    \/ ParseContent
    \/ ParseReturn
    \/ ChunkWhole
    \/ SplitAtomic
    \/ SplitBegin
    \/ SplitParagraph
    \/ SplitReturn
    \/ ChunkReturn
    \/ EmbedBegin
    \/ EmbedPoint
    \/ UpsertBatch
    \/ EmbedReturn

SpecEmbed == InitEmbed /\ [][NextEmbed]_vars

---------------------------------------------------------------------------
(* TextCleaner.clean from its step 6 on, and TextCleaner._remove_pii       *)
(* (src/src/processors/cleaner.py).  The analyzer and the anonymizer are   *)
(* Presidio's: a call of theirs returns or raises.                         *)

\* the longest text given to step 6
MaxCleanLen == 3

\* the characters of those texts; "p" stands for a character the analyzer
\* reports as personal data
CleanChars == {" ", NL, "a", "p"}

\* clean, line 69: step 5 leaves no three newlines in a row
Collapsed(t) ==
    \A i \in 1..(Len(t) - 2) : ~(t[i] = NL /\ t[i + 1] = NL /\ t[i + 2] = NL)

\* the text as steps 1 to 5 of clean leave it
CleanTexts ==
    {t \in UNION {[1..n -> CleanChars] : n \in 0..MaxCleanLen} : Collapsed(t)}

\* _remove_pii, lines 85-92: the analyzer's results, as the positions found
Analyzed(t) == {i \in 1..Len(t) : t[i] = "p"}

\* _remove_pii, lines 98-116: every result replaced by its placeholder
Anonymized(t, found) ==
    [i \in 1..Len(t) |-> IF i \in found THEN "<PERSON>" ELSE t[i]]

\* _remove_pii, lines 82-116: the steps of the try block that may raise
PiiSteps == {"import", "analyze", "operators", "anonymize"}

\* clean, lines 72-73: _remove_pii is called only with the flag set and an analyzer
CleanStep6 ==
    /\ clean_pc = "step6"
    /\ IF remove_pii /\ pii_analyzer
       THEN /\ clean_pc' = "analyze"
            /\ pii_input' = clean_text
       ELSE /\ clean_pc' = "return"
            /\ UNCHANGED pii_input
    /\ UNCHANGED <<remove_pii, pii_analyzer, clean_text, results, raised_in, cleaned>>
    /\ UNCHANGED <<embedVars, runVars>>
    /\ UNCHANGED <<max_tokens, text, pc, rechunk_of, parseVars, splitVars, chunkVars,
                   parked, returned, calls, mixed, cut>>

\* _remove_pii, lines 81-95: the import and the analysis; either raises, or the
\* analysis finds nothing and the text is returned, or it finds something
Analyze ==
    /\ clean_pc = "analyze"
    /\ \/ /\ \E step \in {"import", "analyze"} : raised_in' = step
          /\ clean_pc' = "except"
          /\ UNCHANGED <<results, clean_text>>
       \/ /\ results' = Analyzed(pii_input)
          /\ IF Analyzed(pii_input) = {}
             THEN clean_pc' = "return" /\ clean_text' = pii_input
             ELSE clean_pc' = "anonymize" /\ UNCHANGED clean_text
          /\ UNCHANGED raised_in
    /\ UNCHANGED <<remove_pii, pii_analyzer, pii_input, cleaned>>
    /\ UNCHANGED <<embedVars, runVars>>
    /\ UNCHANGED <<max_tokens, text, pc, rechunk_of, parseVars, splitVars, chunkVars,
                   parked, returned, calls, mixed, cut>>

\* _remove_pii, lines 97-116: the operators and the anonymization; either
\* raises, or the anonymized text is returned
Anonymize ==
    /\ clean_pc = "anonymize"
    /\ \/ /\ \E step \in {"operators", "anonymize"} : raised_in' = step
          /\ clean_pc' = "except"
          /\ UNCHANGED clean_text
       \/ /\ clean_text' = Anonymized(pii_input, results)
          /\ clean_pc' = "return"
          /\ UNCHANGED raised_in
    /\ UNCHANGED <<remove_pii, pii_analyzer, pii_input, results, cleaned>>
    /\ UNCHANGED <<embedVars, runVars>>
    /\ UNCHANGED <<max_tokens, text, pc, rechunk_of, parseVars, splitVars, chunkVars,
                   parked, returned, calls, mixed, cut>>

\* a handler that logs and lets the exception go on to clean's caller
ExceptPropagate ==
    /\ clean_pc = "except"
    /\ clean_pc' = "raised"
    /\ UNCHANGED <<remove_pii, pii_analyzer, clean_text, pii_input, results, raised_in,
                   cleaned>>
    /\ UNCHANGED <<embedVars, runVars>>
    /\ UNCHANGED <<max_tokens, text, pc, rechunk_of, parseVars, splitVars, chunkVars,
                   parked, returned, calls, mixed, cut>>

\* _remove_pii, lines 118-125: the handler logs and returns the argument
Except ==
    /\ clean_pc = "except"
    /\ clean_text' = pii_input
    /\ clean_pc' = "return"
    /\ UNCHANGED <<remove_pii, pii_analyzer, pii_input, results, raised_in, cleaned>>
    /\ UNCHANGED <<embedVars, runVars>>
    /\ UNCHANGED <<max_tokens, text, pc, rechunk_of, parseVars, splitVars, chunkVars,
                   parked, returned, calls, mixed, cut>>

\* clean, line 75: return text.strip()
CleanReturn ==
    /\ clean_pc = "return"
    /\ cleaned' = Strip(clean_text)
    /\ clean_pc' = "done"
    /\ UNCHANGED <<remove_pii, pii_analyzer, clean_text, pii_input, results, raised_in>>
    /\ UNCHANGED <<embedVars, runVars>>
    /\ UNCHANGED <<max_tokens, text, pc, rechunk_of, parseVars, splitVars, chunkVars,
                   parked, returned, calls, mixed, cut>>

\* __init__, lines 14-43: the flag stays set only if the engines were made
InitClean ==
    /\ ChunkerInit({1}, {<<>>})
    /\ EmbedIdle
    /\ RunIdle
    /\ clean_pc = "step6"
    /\ remove_pii \in BOOLEAN
    /\ pii_analyzer = remove_pii
    /\ clean_text \in CleanTexts
    /\ pii_input = <<>>
    /\ results = {}
    /\ raised_in = "none"
    /\ cleaned = <<>>

NextClean ==
    \/ CleanStep6
    \/ Analyze
    \/ Anonymize
    \/ Except
    \/ CleanReturn

SpecClean == InitClean /\ [][NextClean]_vars

---------------------------------------------------------------------------
(* MedicalDataPipeline.run (src/scripts/run_pipeline.py): every PDF goes   *)
(* through the stages that are not skipped, then the vectorization runs    *)
(* for all of them.  A stage is a call that returns or raises.             *)

\* the most PDFs found in the input directory
MaxPdfs == 2

\* list(self.input_dir.glob("**/*.pdf")), line 154, the PDFs numbered from 1
PdfLists == {[i \in 1..n |-> i] : n \in 0..MaxPdfs}

\* what a call of a stage does
StageOutcomes == {"ok", "raised"}

\* the loop of line 178 goes to the next PDF, or ends
NextPdf == IF idx < Len(pdf_files) THEN "ocr" ELSE "vectorize"

\* lines 145-164: the two early returns, then the counters
RunBegin ==
    /\ run_pc = "begin"
    /\ IF ~input_dir_exists
       THEN /\ run_result' = <<FALSE>>
            /\ run_pc' = "done"
       ELSE IF pdf_files = <<>>
       THEN /\ run_result' = <<TRUE>>
            /\ run_pc' = "done"
       ELSE /\ run_pc' = "models"
            /\ UNCHANGED run_result
    /\ successful' = 0
    /\ failed' = 0
    /\ failed_files' = <<>>
    /\ UNCHANGED <<flagVars, models_ok, idx, stage_log>>
    /\ UNCHANGED <<embedVars, cleanVars>>
    /\ UNCHANGED <<max_tokens, text, pc, rechunk_of, parseVars, splitVars, chunkVars,
                   parked, returned, calls, mixed, cut>>

\* lines 166-175: the models are loaded unless OCR is skipped; a failure ends
\* the run with False
InitModels ==
    /\ run_pc = "models"
    /\ IF skip_ocr
       THEN /\ run_pc' = "ocr"
            /\ UNCHANGED <<models_ok, run_result>>
       ELSE \/ /\ models_ok' = TRUE
               /\ run_pc' = "ocr"
               /\ UNCHANGED run_result
            \/ /\ run_result' = <<FALSE>>
               /\ run_pc' = "done"
               /\ UNCHANGED models_ok
    /\ idx' = 1
    /\ UNCHANGED <<flagVars, successful, failed, failed_files, stage_log>>
    /\ UNCHANGED <<embedVars, cleanVars>>
    /\ UNCHANGED <<max_tokens, text, pc, rechunk_of, parseVars, splitVars, chunkVars,
                   parked, returned, calls, mixed, cut>>

\* a stage whose exception is logged and forgotten
StageSwallowing(name, skipped, next) ==
    /\ run_pc = name
    /\ IF skipped
       THEN /\ run_pc' = next
            /\ UNCHANGED stage_log
       ELSE \E outcome \in StageOutcomes :
               /\ stage_log' = Append(stage_log, <<idx, name, outcome>>)
               /\ run_pc' = next
    /\ UNCHANGED <<flagVars, models_ok, idx, successful, failed, failed_files,
                   run_result>>
    /\ UNCHANGED <<embedVars, cleanVars>>
    /\ UNCHANGED <<max_tokens, text, pc, rechunk_of, parseVars, splitVars, chunkVars,
                   parked, returned, calls, mixed, cut>>

\* lines 184-218: one stage of the try block: skipped, or called; its exception
\* leaves the try block for the handler
Stage(name, skipped, next) ==
    /\ run_pc = name
    /\ IF skipped
       THEN /\ run_pc' = next
            /\ UNCHANGED stage_log
       ELSE \E outcome \in StageOutcomes :
               /\ stage_log' = Append(stage_log, <<idx, name, outcome>>)
               /\ run_pc' = IF outcome = "ok" THEN next ELSE "except"
    /\ UNCHANGED <<flagVars, models_ok, idx, successful, failed, failed_files,
                   run_result>>
    /\ UNCHANGED <<embedVars, cleanVars>>
    /\ UNCHANGED <<max_tokens, text, pc, rechunk_of, parseVars, splitVars, chunkVars,
                   parked, returned, calls, mixed, cut>>

\* lines 186-192
StageOcr == Stage("ocr", skip_ocr, "convert")

\* lines 195-201
StageConvert == Stage("convert", skip_convert, "clean")

\* lines 204-210
StageClean == Stage("clean", skip_clean, "chunk")

\* lines 213-218
StageChunk == Stage("chunk", skip_chunk, "succeeded")

\* line 220: successful += 1, and the loop goes on
PdfSucceeded ==
    /\ run_pc = "succeeded"
    /\ successful' = successful + 1
    /\ idx' = idx + 1
    /\ run_pc' = NextPdf
    /\ UNCHANGED <<flagVars, models_ok, failed, failed_files, stage_log, run_result>>
    /\ UNCHANGED <<embedVars, cleanVars>>
    /\ UNCHANGED <<max_tokens, text, pc, rechunk_of, parseVars, splitVars, chunkVars,
                   parked, returned, calls, mixed, cut>>

\* a handler that ends the loop at the first PDF that fails
PdfFailedEndsLoop ==
    /\ run_pc = "except"
    /\ failed' = failed + 1
    /\ failed_files' = Append(failed_files, pdf_files[idx])
    /\ idx' = idx + 1
    /\ run_pc' = "vectorize"
    /\ UNCHANGED <<flagVars, models_ok, successful, stage_log, run_result>>
    /\ UNCHANGED <<embedVars, cleanVars>>
    /\ UNCHANGED <<max_tokens, text, pc, rechunk_of, parseVars, splitVars, chunkVars,
                   parked, returned, calls, mixed, cut>>

\* lines 222-227: the handler counts the PDF as failed, and the loop goes on
PdfFailed ==
    /\ run_pc = "except"
    /\ failed' = failed + 1
    /\ failed_files' = Append(failed_files, pdf_files[idx])
    /\ idx' = idx + 1
    /\ run_pc' = NextPdf
    /\ UNCHANGED <<flagVars, models_ok, successful, stage_log, run_result>>
    /\ UNCHANGED <<embedVars, cleanVars>>
    /\ UNCHANGED <<max_tokens, text, pc, rechunk_of, parseVars, splitVars, chunkVars,
                   parked, returned, calls, mixed, cut>>

\* lines 229-242: the vectorization, called once if it is not skipped and a PDF
\* succeeded or cleaning was not skipped; its exception is logged only
Vectorize ==
    /\ run_pc = "vectorize"
    /\ IF ~skip_vectorize /\ (successful > 0 \/ ~skip_clean)
       THEN \E outcome \in StageOutcomes :
               stage_log' = Append(stage_log, <<0, "vectorize", outcome>>)
       ELSE UNCHANGED stage_log
    /\ run_pc' = "return"
    /\ UNCHANGED <<flagVars, models_ok, idx, successful, failed, failed_files,
                   run_result>>
    /\ UNCHANGED <<embedVars, cleanVars>>
    /\ UNCHANGED <<max_tokens, text, pc, rechunk_of, parseVars, splitVars, chunkVars,
                   parked, returned, calls, mixed, cut>>

\* a return value that also counts a failed vectorization
RunReturnStrict ==
    /\ run_pc = "return"
    /\ run_result' = <<failed = 0
                        /\ \A i \in 1..Len(stage_log) : stage_log[i][3] = "ok">>
    /\ run_pc' = "done"
    /\ UNCHANGED <<flagVars, models_ok, idx, successful, failed, failed_files,
                   stage_log>>
    /\ UNCHANGED <<embedVars, cleanVars>>
    /\ UNCHANGED <<max_tokens, text, pc, rechunk_of, parseVars, splitVars, chunkVars,
                   parked, returned, calls, mixed, cut>>

\* lines 244-259: the summary and return failed == 0
RunReturn ==
    /\ run_pc = "return"
    /\ run_result' = <<failed = 0>>
    /\ run_pc' = "done"
    /\ UNCHANGED <<flagVars, models_ok, idx, successful, failed, failed_files,
                   stage_log>>
    /\ UNCHANGED <<embedVars, cleanVars>>
    /\ UNCHANGED <<max_tokens, text, pc, rechunk_of, parseVars, splitVars, chunkVars,
                   parked, returned, calls, mixed, cut>>

InitRun ==
    /\ ChunkerInit({1}, {<<>>})
    /\ EmbedIdle
    /\ CleanIdle
    /\ run_pc = "begin"
    /\ input_dir_exists \in BOOLEAN
    /\ pdf_files \in PdfLists
    /\ skip_ocr \in BOOLEAN
    /\ skip_convert \in BOOLEAN
    /\ skip_clean \in BOOLEAN
    /\ skip_chunk \in BOOLEAN
    /\ skip_vectorize \in BOOLEAN
    /\ models_ok = FALSE
    /\ idx = 1
    /\ successful = 0
    /\ failed = 0
    /\ failed_files = <<>>
    /\ stage_log = <<>>
    /\ run_result = <<>>

NextRun ==
    \/ RunBegin
    \/ InitModels
    \/ StageOcr
    \/ StageConvert
    \/ StageClean
    \/ StageChunk
    \/ PdfSucceeded
    \/ PdfFailed
    \/ Vectorize
    \/ RunReturn

SpecRun == InitRun /\ [][NextRun]_vars

---------------------------------------------------------------------------
(* Vocabulary of the properties *)

Done == pc = "done"

IsPageLine(i) == MatchPage(lines[i]).ok

IsHeaderLine(i) == ~MatchPage(lines[i]).ok /\ MatchHeader(lines[i]).ok

IsContentLine(i) == ~MatchPage(lines[i]).ok /\ ~MatchHeader(lines[i]).ok

\* the input holds only header and page-marker lines: the parse yields no section
OnlyStructure == \A i \in 1..Len(lines) : ~IsContentLine(i)

\* the section a fragment was produced from, and the lines that section was cut from
SectionOf(k) == sections[chunk_sec[k]]
SpanOfChunk(k) == sec_span[chunk_sec[k]]

IsFallback(section) == "headers" \notin DOMAIN section

NotSpace(c) == c \notin Whitespace

\* a text without its whitespace
Ink(t) == SelectSeq(t, NotSpace)

RECURSIVE Concat(_)
Concat(parts) == IF parts = <<>> THEN <<>> ELSE parts[1] \o Concat(Tail(parts))

\* the content of fragment k without its breadcrumb prefix
Body(k) ==
    IF chunks[k].context # <<>> \/ chunk_path[k] = "split"
    THEN SubSeq(chunks[k].content, Len(Prefixed(chunks[k].context, <<>>)) + 1,
                Len(chunks[k].content))
    ELSE chunks[k].content

AllBodies == Concat([k \in 1..Len(chunks) |-> Body(k)])

ContentLineIndexes == {i \in 1..Len(lines) : IsContentLine(i)}

RECURSIVE ContentText(_)
\* the content lines among lines 1..n, concatenated in order
ContentText(n) ==
    IF n = 0 THEN <<>>
    ELSE ContentText(n - 1) \o (IF IsContentLine(n) THEN lines[n] ELSE <<>>)

\* the number of ' > '-separated segments of a context; the empty context has none
Segments(context) == IF context = <<>> THEN 0 ELSE Len(Split(context, Sep))

\* the page number carried by the last page marker before line i, 1 without one
RECURSIVE PageBefore(_)
PageBefore(i) ==
    IF i <= 1 THEN 1
    ELSE IF IsPageLine(i - 1) THEN ParseInt(MatchPage(lines[i - 1]).digits)
    ELSE PageBefore(i - 1)

---------------------------------------------------------------------------
(* Properties *)

\* C1: chunk applied to the empty string returns an empty fragment list: no
\* fragment at all, not a fragment with empty content.
C1_EmptyInputNoFragment == (Done /\ text = <<>>) => chunks = <<>>

\* C2: for every non-blank input without a header line, chunk works on exactly
\* one section, with context "Document Body", level 1 and page 1, and every
\* fragment returned has context "Document Body", level 1 and page_number 1.
C2_HeaderlessIsDocumentBody ==
    (/\ Done
     /\ Strip(text) # <<>>
     /\ \A i \in 1..Len(lines) : ~IsHeaderLine(i))
    => /\ Len(sections) = 1
       /\ sections[1].context_path = DocumentBody
       /\ sections[1].level = 1
       /\ sections[1].page_number = 1
       /\ \A k \in 1..Len(chunks) :
             /\ chunks[k].context = DocumentBody
             /\ chunks[k].level = 1
             /\ chunks[k].page_number = 1

\* C3: a page-marker line always forces a section boundary: no fragment is cut
\* from a range of lines that holds a marker line (so lines before and after a
\* marker never share a fragment and the marker line is in no fragment), and
\* each fragment's page_number is the number of the last marker before its
\* lines, 1 when there is none.
C3_PageMarkerBoundary ==
    Done =>
      \A k \in 1..Len(chunks) :
         /\ \A i \in SpanOfChunk(k)[1]..SpanOfChunk(k)[2] : ~IsPageLine(i)
         /\ chunks[k].page_number = PageBefore(SpanOfChunk(k)[1])

\* C4 as stated: for every fragment, for any input, the number of ' > '-separated
\* segments of its context never exceeds its level, header titles that contain
\* the separator text included.
C4_SegmentsWithinLevel ==
    Done => \A k \in 1..Len(chunks) : Segments(chunks[k].context) <= chunks[k].level

\* no header title in effect for the section holds the character '>'
PlainTitles(section) ==
    \A d \in 1..4 : \A j \in 1..Len(section.headers[d]) : section.headers[d][j] # ">"

\* C4 as amended: the segments of a fragment's context never exceed its level
\* when no header title in effect for its section holds '>', and for the
\* fallback section, whose context is the fixed "Document Body".
C4_SegmentsWithinLevelPlainTitles ==
    Done =>
      \A k \in 1..Len(chunks) :
         (IsFallback(SectionOf(k)) \/ PlainTitles(SectionOf(k)))
         => Segments(chunks[k].context) <= chunks[k].level

\* C4 witness: a fragment under two nested plain headers, context of two segments
C4_Witness ==
    /\ Done
    /\ \E k \in 1..Len(chunks) :
          /\ ~IsFallback(SectionOf(k))
          /\ PlainTitles(SectionOf(k))
          /\ Segments(chunks[k].context) = 2

\* C5 as stated: the fragment contents in order, breadcrumbs stripped, reproduce
\* the input up to whitespace; nothing of the input is dropped or duplicated.
C5_InputReproduced == Done => Ink(AllBodies) = Ink(text)

\* C5 as amended: the fragment contents in order, breadcrumbs stripped, reproduce
\* up to whitespace the content lines of the input (the lines that are neither
\* header nor page-marker lines), each once and in order; when the input holds
\* only header and marker lines, the fallback fragment reproduces the whole input.
C5_ContentReproduced ==
    Done => Ink(AllBodies) = (IF OnlyStructure THEN Ink(text)
                              ELSE Ink(ContentText(Len(lines))))

\* C5 witness: a document with a header, a marker or both, of several sections,
\* one of them split by paragraphs
C5_Witness ==
    /\ Done
    /\ ~OnlyStructure
    /\ \E i \in 1..Len(lines) : ~IsContentLine(i)
    /\ Len(sections) >= 2
    /\ \E k \in 1..Len(chunks) : chunk_path[k] = "split" /\ Body(k) # <<>>

\* the line by itself matches the bullet-list pattern
IsBulletLine(i) == HasBullet(lines[i])

\* lines i..j are consecutive bullet lines whose estimate is within the budget,
\* inside section s, which exceeds the budget
ListInLargeSection(i, j, s) ==
    /\ j - i + 1 >= 5
    /\ \A n \in i..j : IsBulletLine(n)
    /\ EstimateTokens(Join(SubSeq(lines, i, j), <<NL>>)) <= max_tokens
    /\ sec_span[s][1] <= i /\ j <= sec_span[s][2]
    /\ EstimateTokens(BuildChunkWithContext(sections[s])) > max_tokens

\* C6: a bullet list of 5 consecutive list lines whose estimate is under the
\* budget, inside a section that exceeds the budget, is held whole by a single
\* fragment of that section.
C6_ListNeverSplit ==
    Done =>
      \A s \in 1..Len(sections) : \A i \in 1..Len(lines) : \A j \in i..Len(lines) :
         ListInLargeSection(i, j, s)
         => \E k \in 1..Len(chunks) :
               /\ chunk_sec[k] = s
               /\ Contains(chunks[k].content, Strip(Join(SubSeq(lines, i, j), <<NL>>)))

\* C6 witness: such a list in a section that the paragraph split cut in two
C6_Witness ==
    /\ Done
    /\ \E s \in 1..Len(sections) : \E i \in 1..Len(lines) : \E j \in i..Len(lines) :
          /\ ListInLargeSection(i, j, s)
          /\ Cardinality({k \in 1..Len(chunks) : chunk_sec[k] = s}) >= 2

\* a headerless plain paragraph: no header line, no marker line, not blank, and
\* no blank-line boundary inside
PlainParagraph ==
    /\ \A i \in 1..Len(lines) : IsContentLine(i)
    /\ Strip(text) # <<>>
    /\ ~Contains(Strip(text), <<NL, NL>>)

SameFrame(a, b) ==
    a.context = b.context /\ a.level = b.level /\ a.page_number = b.page_number

\* C7 as stated: when a headerless plain paragraph exceeds the budget, chunk
\* returns more than one fragment, all with the same context, level and page.
C7_LargeParagraphIsSplit ==
    (Done /\ PlainParagraph /\ EstimateTokens(Strip(text)) > max_tokens)
    => /\ Len(chunks) > 1
       /\ \A k \in 1..Len(chunks) : SameFrame(chunks[k], chunks[1])

\* C7 as amended: when a headerless plain paragraph exceeds the budget, chunk
\* returns exactly one fragment, made by the paragraph split, which holds the
\* whole paragraph and exceeds the budget.
C7_LargeParagraphKeptWhole ==
    (Done /\ PlainParagraph /\ EstimateTokens(Strip(text)) > max_tokens)
    => /\ Len(chunks) = 1
       /\ chunk_path[1] = "split"
       /\ Body(1) = Strip(text)
       /\ EstimateTokens(chunks[1].content) > max_tokens

\* C7 witness: such a paragraph, of two lines, chunked
C7_Witness ==
    /\ Done
    /\ PlainParagraph
    /\ EstimateTokens(Strip(text)) > max_tokens
    /\ Len(lines) >= 2
    /\ Len(chunks) = 1

\* C8: re-chunking the content of a fragment that fits the budget and holds no
\* header line returns exactly one fragment, with that content and with
\* context "Document Body" (stated here for the fragments that are not blank).
C8_RechunkIdempotent ==
    (/\ Done
     /\ rechunk_of # <<>>
     /\ Strip(text) # <<>>
     /\ EstimateTokens(text) <= max_tokens
     /\ \A i \in 1..Len(lines) : ~IsHeaderLine(i))
    => /\ Len(chunks) = 1
       /\ chunks[1].content = rechunk_of[1].content
       /\ chunks[1].context = DocumentBody

\* C9: a fragment's content is "Context: <context>", a blank line and raw text
\* of its section exactly when its context is non-empty; with an empty
\* context it is raw text of its section, without prefix, on every path.
C9_PrefixIffContext ==
    Done =>
      \A k \in 1..Len(chunks) :
         IF chunks[k].context # <<>>
         THEN /\ StartsAt(chunks[k].content, 1, Prefixed(chunks[k].context, <<>>))
              /\ Contains(SectionOf(k).content,
                          SubSeq(chunks[k].content,
                                 Len(Prefixed(chunks[k].context, <<>>)) + 1,
                                 Len(chunks[k].content)))
         ELSE Contains(SectionOf(k).content, chunks[k].content)

\* the last header line of depth d before line a, 0 without one
LastHeader(d, a) ==
    LET hs == {h \in 1..(a - 1) : IsHeaderLine(h) /\ MatchHeader(lines[h]).level = d}
    IN  IF hs = {} THEN 0 ELSE CHOOSE h \in hs : \A g \in hs : g <= h

\* the title in effect at depth d for content that starts at line a: the title
\* of the last header of depth d, unless a shallower header came after it
TitleInEffect(d, a) ==
    LET h == LastHeader(d, a)
    IN  IF h = 0 \/ \E g \in (h + 1)..(a - 1) :
                        IsHeaderLine(g) /\ MatchHeader(lines[g]).level < d
        THEN <<>>
        ELSE MatchHeader(lines[h]).title

\* C10: at every point of the parse the ancestry slots deeper than the active
\* level are empty; so they are in every section created, whose slots hold
\* exactly the titles in effect: no title of a deeper header survives a later
\* shallower or same-depth header.
C10_TreeInvariant ==
    /\ \A d \in (current_level + 1)..4 : current_headers[d] = <<>>
    /\ \A s \in 1..Len(sections) :
          ~IsFallback(sections[s]) =>
             /\ \A d \in (sections[s].level + 1)..4 : sections[s].headers[d] = <<>>
             /\ \A d \in 1..4 : sections[s].headers[d] = TitleInEffect(d, sec_span[s][1])

\* C10 witness: a section created after a deep header and a later shallower one
C10_Witness ==
    \E s \in 1..Len(sections) : \E h \in 1..Len(lines) : \E g \in 1..Len(lines) :
       /\ ~IsFallback(sections[s])
       /\ h < g /\ g < sec_span[s][1]
       /\ IsHeaderLine(h) /\ IsHeaderLine(g)
       /\ MatchHeader(lines[g]).level < MatchHeader(lines[h]).level

\* the fragments of section s, as indexes into chunks
FragmentsOf(s) == {k \in 1..Len(chunks) : chunk_sec[k] = s}

\* the bodies of the fragments of section s, in the order of the result list
BodiesOf(s) ==
    LET ks    == FragmentsOf(s)
        first == CHOOSE k \in ks : \A j \in ks : k <= j
    IN  IF ks = {} THEN <<>>
        ELSE [i \in 1..Cardinality(ks) |-> Body(first + i - 1)]

\* C11: the result list is in reading order: the sections were cut from
\* successive ranges of lines, the fragments of an earlier section precede
\* those of a later one, and the fragments of a split section, joined in
\* list order by blank lines, give back the section's content: its paragraphs
\* left to right, none moved, none interleaved.
C11_ReadingOrder ==
    Done =>
      /\ \A s \in 1..(Len(sections) - 1) : sec_span[s][2] < sec_span[s + 1][1]
      /\ \A k \in 1..(Len(chunks) - 1) : chunk_sec[k] <= chunk_sec[k + 1]
      /\ \A s \in 1..Len(sections) :
            (\E k \in FragmentsOf(s) : chunk_path[k] = "split")
            => Join(BodiesOf(s), <<NL, NL>>) = sections[s].content

\* C11 witness: two sections, one of them split into two fragments
C11_Witness ==
    /\ Done
    /\ Len(sections) >= 2
    /\ \E s \in 1..Len(sections) :
          /\ Cardinality(FragmentsOf(s)) >= 2
          /\ \A k \in FragmentsOf(s) : chunk_path[k] = "split" /\ Body(k) # <<>>

\* C12: every fragment returned has a level in 0..4 and a page_number that is
\* a positive integer, whatever digit strings the page markers carry.
C12_LevelAndPageRange ==
    Done =>
      \A k \in 1..Len(chunks) :
         /\ chunks[k].level \in 0..4
         /\ chunks[k].page_number \in Nat
         /\ chunks[k].page_number >= 1

\* the sections as _parse_sections returned them: chunk has them, and they are
\* not the fallback section chunk makes up when the parser returns none
Parsed == pc # "parse" /\ \A s \in 1..Len(sections) : ~IsFallback(sections[s])

\* the sections whose range of lines holds line i
Covering(i) == {s \in 1..Len(sec_span) : sec_span[s][1] <= i /\ i <= sec_span[s][2]}

\* C13 as stated: the sections the parser produced cover every non-blank line
\* of the input exactly once.
C13_NonBlankLinesCovered ==
    Parsed =>
      \A i \in 1..Len(lines) : Strip(lines[i]) # <<>> => Cardinality(Covering(i)) = 1

\* C13 as amended: the sections the parser produced cover every content line of
\* the input (a line that is neither a header line nor a page-marker line, blank
\* or not) exactly once and in order; header and marker lines are in no section;
\* each section's content is the text of a maximal run of consecutive content
\* lines, stripped at both ends; the parser returns no section exactly when
\* the input has no content line.
C13_ContentLinesCovered ==
    /\ Parsed =>
         /\ Len(sec_span) = Len(sections)
         /\ \A i \in 1..Len(lines) :
               Cardinality(Covering(i)) = (IF IsContentLine(i) THEN 1 ELSE 0)
         /\ \A s \in 1..(Len(sections) - 1) : sec_span[s][2] + 1 < sec_span[s + 1][1]
         /\ \A s \in 1..Len(sections) :
               sections[s].content
                 = Strip(Join(SubSeq(lines, sec_span[s][1], sec_span[s][2]), <<NL>>))
    /\ (pc # "parse" /\ ~Parsed) => OnlyStructure

\* C13 witness: a parse of two sections around a header line, one of them
\* holding a blank line
C13_Witness ==
    /\ Parsed
    /\ Len(sections) >= 2
    /\ \E i \in 1..Len(lines) : IsHeaderLine(i)
    /\ \E i \in 1..Len(lines) : Strip(lines[i]) = <<>> /\ Covering(i) # {}

\* lines that are almost a header or almost a page marker
MalformedLines == {HeaderFive, HeaderTight, PageWordy, PageLead, PageTrail}

\* the parser is about to read a malformed line
AtMalformedLine == pc = "parse" /\ li <= Len(lines) /\ lines[li] \in MalformedLines

\* every loop index is inside or just past its list, and what chunk returns is
\* a list of fragment records
InRange ==
    /\ pc \in {"parse", "sections", "split", "done"}
    /\ li \in 1..(Len(lines) + 1)
    /\ si \in 1..(Len(sections) + 1)
    /\ pc = "split" => si <= Len(sections) /\ pj \in 1..(Len(paragraphs) + 1)
    /\ Done => \A k \in 1..Len(chunks) :
                  DOMAIN chunks[k] = {"content", "context", "level", "page_number"}

\* a step moves its loop one element on, or leaves the loop for the next stage
Advance ==
    \/ pc = "parse" /\ pc' = "parse" /\ li <= Len(lines) /\ li' = li + 1
    \/ pc = "parse" /\ pc' = "sections" /\ li = Len(lines) + 1
    \/ pc = "sections" /\ pc' = "sections" /\ si <= Len(sections) /\ si' = si + 1
    \/ pc = "sections" /\ pc' = "split" /\ si <= Len(sections) /\ pj' = 1
    \/ pc = "split" /\ pc' = "split" /\ pj <= Len(paragraphs) /\ pj' = pj + 1
    \/ pc = "split" /\ pc' = "sections" /\ pj = Len(paragraphs) + 1 /\ si' = si + 1
    \/ pc = "sections" /\ pc' = "done" /\ si = Len(sections) + 1 /\ chunks' = chunks
    \/ pc = "done" /\ pc' = "parse"

Inherits(fragment, section) ==
    /\ fragment.context = section.context_path
    /\ fragment.level = section.level
    /\ fragment.page_number = section.page_number

\* C15: every fragment produced from a section carries that section's context
\* path, level and page number unchanged, whether it was made from the whole
\* section, as an atomic block or by the paragraph split (the fragments the
\* split has made so far included); so the fragments of one section agree on
\* context, level and page_number.
C15_FragmentInheritsSection ==
    /\ \A k \in 1..Len(chunks) : Inherits(chunks[k], SectionOf(k))
    /\ \A k \in 1..Len(split_chunks) : Inherits(split_chunks[k], sections[si])
    /\ \A k \in 1..Len(chunks) : \A j \in 1..Len(chunks) :
          chunk_sec[k] = chunk_sec[j] => SameFrame(chunks[k], chunks[j])

\* C15 witness: a section under a header, on page 2, split into two fragments
C15_Witness ==
    /\ Done
    /\ \E s \in 1..Len(sections) :
          /\ Cardinality(FragmentsOf(s)) >= 2
          /\ \A k \in FragmentsOf(s) : chunk_path[k] = "split"
          /\ sections[s].context_path # <<>>
          /\ sections[s].level >= 1
          /\ sections[s].page_number = 2

\* floor(length / 4) <= budget, without the division
WithinBudget(t) == Len(t) < 4 * (max_tokens + 1)

\* the sections chunk has dealt with so far
Emitted == {s \in 1..Len(sections) : s < si}

BulletAt(ls, n) ==
    LET l == LStrip(ls[n])
    IN  /\ l # <<>>
        /\ l[1] \in {"-", "*", "+"}
        /\ IF Len(l) >= 2 THEN l[2] \in Whitespace ELSE n < Len(ls)

\* line n of ls, after its leading whitespace, opens with digits, a dot and
\* whitespace (the line break to a next line counts)
NumberAt(ls, n) ==
    LET l == LStrip(ls[n])
        e == SpanOf(l, 1, Digits)
    IN  /\ e > 1
        /\ e <= Len(l)
        /\ l[e] = "."
        /\ IF Len(l) >= e + 1 THEN l[e + 1] \in Whitespace ELSE n < Len(ls)

\* the content holds a bullet line, a numbered line or a code fence
LooksAtomic(content) ==
    LET ls == Split(content, <<NL>>)
    IN  \E n \in 1..Len(ls) :
           BulletAt(ls, n) \/ NumberAt(ls, n) \/ Contains(ls[n], Fence)

\* C19: the classifier protects a section's raw content only if the content's
\* own estimate is within the budget and the content holds a bullet line, a
\* numbered line or a code fence (and it protects every such content the
\* splitter is handed); raw content over the budget is never protected.
C19_ProtectOnlySmallBlocks ==
    /\ \A k \in 1..Len(chunks) :
          chunk_path[k] = "atomic"
          => WithinBudget(SectionOf(k).content) /\ LooksAtomic(SectionOf(k).content)
    /\ \A s \in Emitted :
          ~WithinBudget(sections[s].content)
          => \A k \in FragmentsOf(s) : chunk_path[k] = "split"
    /\ \A s \in Emitted :
          (/\ ~WithinBudget(BuildChunkWithContext(sections[s]))
           /\ WithinBudget(sections[s].content)
           /\ LooksAtomic(sections[s].content))
          => \E k \in FragmentsOf(s) : chunk_path[k] = "atomic"

\* C19 witness: a numbered list under a header, within the budget by itself
\* and over it with its breadcrumb, has been protected
C19_Witness ==
    /\ Done
    /\ \E k \in 1..Len(chunks) :
          /\ chunk_path[k] = "atomic"
          /\ HasNumbered(SectionOf(k).content)
          /\ ~HasBullet(SectionOf(k).content)

\* C20: a fragment of the atomic path is the only fragment of its section and
\* holds the section's breadcrumb-prefixed whole text; that text is over the
\* budget while the raw content is within it; so the section has a non-empty
\* context.
C20_AtomicFragment ==
    \A k \in 1..Len(chunks) :
       chunk_path[k] = "atomic"
       => /\ FragmentsOf(chunk_sec[k]) = {k}
          /\ chunks[k].content = Prefixed(SectionOf(k).context_path, SectionOf(k).content)
          /\ ~WithinBudget(chunks[k].content)
          /\ WithinBudget(SectionOf(k).content)
          /\ chunks[k].context # <<>>

\* C20 witness: a bullet list under a header returned as one atomic fragment
C20_Witness ==
    /\ Done
    /\ \E k \in 1..Len(chunks) :
          /\ chunk_path[k] = "atomic"
          /\ HasBullet(SectionOf(k).content)
          /\ Contains(chunks[k].content, BulletList)

\* what the calls that have returned so far returned
Outcomes ==
    {returned[i] : i \in 1..Len(returned)}
      \cup (IF pc = "done" THEN {Outcome(Frame)} ELSE {})
      \cup (IF parked # <<>> /\ parked[1].pc = "done" THEN {Outcome(parked[1])} ELSE {})

\* C16: chunk is stateless across calls: no step changes the instance's token
\* budget, and two calls on the same text, each run by itself on the same
\* instance, return the same fragment list whatever was chunked between them.
C16_StatelessAcrossCalls ==
    /\ [][max_tokens' = max_tokens]_vars
    /\ [](\A r \in Outcomes : \A q \in Outcomes :
             (~r.mixed /\ ~q.mixed /\ r.text = q.text) => r.chunks = q.chunks)

\* C16 witness: the third call on the instance returns, on the text of the
\* first call, after a second call on another text with a header
C16_Witness ==
    /\ Done
    /\ ~mixed
    /\ Len(returned) = 2
    /\ ~returned[1].mixed /\ ~returned[2].mixed
    /\ returned[1].text = text
    /\ returned[2].text # text
    /\ \E k \in 1..Len(chunks) : chunks[k].context # <<>>
    /\ \E k \in 1..Len(returned[2].chunks) :
          returned[2].chunks[k].context \notin {<<>>, chunks[1].context}

\* C17: a call on a document whose steps interleave with the steps of a call
\* on another document returns exactly the fragment list that a call on the
\* same document returns when it runs by itself.
C17_InterleavedAsAlone ==
    \A r \in Outcomes : \A q \in Outcomes :
       (r.mixed /\ ~q.mixed /\ r.text = q.text) => r.chunks = q.chunks

\* C17 witness: two calls, each suspended between two of its steps while the
\* other one ran, have returned, and a later call by itself on the document
\* of one of them has returned too
C17_Witness ==
    /\ Done
    /\ ~mixed
    /\ Len(returned) = 2
    /\ returned[1].cut /\ returned[2].cut
    /\ returned[1].text # returned[2].text
    /\ text \in {returned[1].text, returned[2].text}
    /\ \A i \in 1..2 : \E k \in 1..Len(returned[i].chunks) :
          returned[i].chunks[k].context # <<>> \/ returned[i].chunks[k].page_number # 1

\* the splitter is about to take paragraph pj of the section it splits
AtParagraph == pc = "split" /\ pj <= Len(paragraphs)

\* the buffer with the paragraph added, prefixed, is over the budget
Overflows(context, pending, para) ==
    ~WithinBudget(ContextWord \o context \o <<NL, NL>>
                    \o Join(Append(pending, para), <<NL, NL>>))

\* the fragment a buffer is flushed as
FlushedAs(section, pending) ==
    [content     |-> ContextWord \o section.context_path \o <<NL, NL>>
                       \o Join(pending, <<NL, NL>>),
     context     |-> section.context_path,
     level       |-> section.level,
     page_number |-> section.page_number]

\* C21: greedy paragraph packing: at each paragraph, in order, the buffer is
\* flushed as a fragment and restarted with just that paragraph exactly when
\* the prefixed buffer-plus-paragraph estimate exceeds the budget and the
\* buffer is not empty; otherwise the paragraph is appended to the buffer;
\* after the last paragraph the buffer that remains is flushed as the final
\* fragment, and the fragments made go to the end of the result list.
C21_GreedyPacking ==
    /\ [][AtParagraph =>
             /\ pj' = pj + 1
             /\ paragraphs' = paragraphs
             /\ IF /\ Overflows(sections[si].context_path, current_chunk, paragraphs[pj])
                   /\ current_chunk # <<>>
                THEN /\ split_chunks'
                          = Append(split_chunks, FlushedAs(sections[si], current_chunk))
                     /\ current_chunk' = <<paragraphs[pj]>>
                ELSE /\ split_chunks' = split_chunks
                     /\ current_chunk' = Append(current_chunk, paragraphs[pj])]_vars
    /\ [][(pc = "split" /\ pj > Len(paragraphs)) =>
             /\ current_chunk # <<>>
             /\ chunks' = chunks \o split_chunks
                             \o <<FlushedAs(sections[si], current_chunk)>>]_vars

\* the number of paragraphs fragment k holds
ParagraphsIn(k) == Len(Split(Body(k), <<NL, NL>>))

\* C21 witness: a split has returned a fragment of two paragraphs, flushed when
\* the third one came, and a last fragment with that third paragraph
C21_Witness ==
    /\ Done
    /\ \E k \in 1..(Len(chunks) - 1) :
          /\ chunk_path[k] = "split" /\ chunk_path[k + 1] = "split"
          /\ chunk_sec[k] = chunk_sec[k + 1]
          /\ ParagraphsIn(k) = 2
          /\ ParagraphsIn(k + 1) = 1

\* C22: on the paragraph-split path a fragment exceeds the budget only if it
\* holds exactly one paragraph: a fragment of two or more paragraphs is within
\* the budget; and a paragraph that by itself, prefixed, exceeds the budget is
\* the whole body of one fragment of its section: not dropped, not cut.
C22_OversizeOnlySingleParagraph ==
    Done =>
      /\ \A k \in 1..Len(chunks) :
            (chunk_path[k] = "split" /\ ParagraphsIn(k) >= 2)
            => WithinBudget(chunks[k].content)
      /\ \A s \in 1..Len(sections) :
            (\E k \in FragmentsOf(s) : chunk_path[k] = "split")
            => \A n \in 1..Len(Split(sections[s].content, <<NL, NL>>)) :
                  LET para == Split(sections[s].content, <<NL, NL>>)[n]
                  IN  Overflows(sections[s].context_path, <<>>, para)
                      => \E k \in FragmentsOf(s) : Body(k) = para

\* C22 witness: a split section gave a fragment of two paragraphs, within the
\* budget, and a fragment of one paragraph that exceeds the budget
C22_Witness ==
    /\ Done
    /\ \E k \in 1..Len(chunks) : \E j \in 1..Len(chunks) :
          /\ chunk_sec[k] = chunk_sec[j]
          /\ chunk_path[k] = "split" /\ chunk_path[j] = "split"
          /\ ParagraphsIn(k) >= 2
          /\ ParagraphsIn(j) = 1
          /\ ~WithinBudget(chunks[j].content)

\* the depth of the last header line before line a, 0 without one
LevelInEffect(a) ==
    LET hs == {h \in 1..(a - 1) : IsHeaderLine(h)}
    IN  IF hs = {} THEN 0
        ELSE MatchHeader(lines[CHOOSE h \in hs : \A g \in hs : g <= h]).level

\* the breadcrumb of content that starts at line a, from the header lines
\* before line a only
ContextInEffect(a) ==
    Join(SelectSeq([d \in 1..LevelInEffect(a) |-> TitleInEffect(d, a)], NonEmpty), Sep)

\* the parser is about to read a header line
AtHeaderLine == pc = "parse" /\ li <= Len(lines) /\ IsHeaderLine(li)

\* C23: at a header line the content accumulated before it is flushed as a
\* section under the ancestry, level and page in effect before that header,
\* and the slot and level of the header are set in the same step, for what
\* follows; so the context of every fragment (the fallback fragment, whose
\* context is no header's, aside) is built from the header lines that precede
\* its content, never from one that follows.
C23_FlushBeforeHeaderUpdate ==
    /\ [][AtHeaderLine =>
             /\ sections'
                  = (IF current_content = <<>> THEN sections
                     ELSE Append(sections,
                            [context_path |-> ContextPath(current_headers, current_level),
                             level        |-> current_level,
                             content      |-> Strip(Join(current_content, <<NL>>)),
                             headers      |-> current_headers,
                             page_number  |-> current_page_number]))
             /\ current_content' = <<>>
             /\ current_level' = MatchHeader(lines[li]).level
             /\ current_headers'[current_level'] = MatchHeader(lines[li]).title]_vars
    /\ [](\A k \in 1..Len(chunks) :
             ~IsFallback(SectionOf(k))
             => /\ chunks[k].context = ContextInEffect(SpanOfChunk(k)[1])
                /\ chunks[k].level = LevelInEffect(SpanOfChunk(k)[1]))

\* C23 witness: a fragment whose content is followed by a header line of
\* another title, and a fragment under that header
C23_Witness ==
    /\ Done
    /\ \E k \in 1..(Len(chunks) - 1) :
          /\ chunk_sec[k + 1] = chunk_sec[k] + 1
          /\ IsHeaderLine(SpanOfChunk(k)[2] + 1)
          /\ chunks[k + 1].context # <<>>
          /\ chunks[k].context # chunks[k + 1].context
          /\ Body(k) # <<>>

\* C24: whenever the parse yields no section and the input is not blank, which
\* is whenever the input holds only header lines and page-marker lines, chunk
\* works on exactly one section, with context "Document Body", level 1, page 1
\* and the entire input text as content, whatever pages the markers carry; and
\* on such a section in no other case.
C24_Fallback ==
    pc # "parse" =>
      /\ OnlyStructure
         => /\ Strip(text) # <<>>
            /\ sections = <<[context_path |-> DocumentBody, level |-> 1,
                             content |-> text, page_number |-> 1]>>
            /\ \A k \in 1..Len(chunks) :
                  /\ chunks[k].context = DocumentBody
                  /\ chunks[k].level = 1
                  /\ chunks[k].page_number = 1
      /\ ~OnlyStructure => \A s \in 1..Len(sections) : ~IsFallback(sections[s])

\* C24 witness: an input of a header line and a marker of page 2 has been
\* chunked into fragments of page 1
C24_Witness ==
    /\ Done
    /\ OnlyStructure
    /\ \E i \in 1..Len(lines) : IsHeaderLine(i)
    /\ \E i \in 1..Len(lines) : IsPageLine(i) /\ ParseInt(MatchPage(lines[i]).digits) = 2
    /\ chunks # <<>>
    /\ Contains(chunks[1].content, PageLine)

\* the sections the paragraph split was applied to
SplitSections ==
    {s \in 1..Len(sections) : \E k \in FragmentsOf(s) : chunk_path[k] = "split"}

\* C27: a section of two or more blank-line-separated paragraphs that reaches
\* the paragraph split comes back as two or more fragments; the split returns
\* a single fragment only for a section of one paragraph, and for every such
\* section.
C27_SplitYieldsSeveral ==
    Done =>
      \A s \in SplitSections :
         LET n == Len(Split(sections[s].content, <<NL, NL>>))
         IN  /\ n >= 2 => Cardinality(FragmentsOf(s)) >= 2
             /\ n = 1 => Cardinality(FragmentsOf(s)) = 1
             /\ Cardinality(FragmentsOf(s)) <= n

\* C27 witness: a split section of three paragraphs returned as two fragments
C27_Witness ==
    /\ Done
    /\ \E s \in SplitSections :
          /\ Len(Split(sections[s].content, <<NL, NL>>)) = 3
          /\ Cardinality(FragmentsOf(s)) = 2

\* lines a..b are a maximal run of content lines
IsRun(a, b) ==
    /\ 1 <= a /\ a <= b /\ b <= Len(lines)
    /\ \A i \in a..b : IsContentLine(i)
    /\ a = 1 \/ ~IsContentLine(a - 1)
    /\ b = Len(lines) \/ ~IsContentLine(b + 1)

\* C28: a section is flushed for every maximal run of lines that are neither
\* header nor marker lines, blank lines included, and for nothing else: a run
\* of blank lines only gives one fragment, whose body is empty; a header
\* followed directly by a header, a marker or the end of the input gives no
\* section, hence no fragment, of its own (an input without any run gives the
\* one fallback section).
C28_FlushPerRun ==
    Done =>
      /\ Len(sections) = Len(sec_span)
      /\ \A a \in 1..Len(lines) : \A b \in a..Len(lines) :
            IsRun(a, b)
            => \E s \in 1..Len(sections) :
                  /\ sec_span[s] = <<a, b>>
                  /\ FragmentsOf(s) # {}
                  /\ (\A i \in a..b : Strip(lines[i]) = <<>>)
                     => \E k \in 1..Len(chunks) : FragmentsOf(s) = {k} /\ Body(k) = <<>>
      /\ \A s \in 1..Len(sections) :
            IF IsFallback(sections[s]) THEN OnlyStructure /\ Len(sections) = 1
            ELSE IsRun(sec_span[s][1], sec_span[s][2])

\* C28 witness: a blank line between two headers gave a fragment with an empty
\* body, and the second header, at the end of the input, gave none
C28_Witness ==
    /\ Done
    /\ Len(lines) = 3
    /\ IsHeaderLine(1) /\ lines[2] = <<>> /\ IsHeaderLine(3)
    /\ Len(chunks) = 1
    /\ Body(1) = <<>>
    /\ chunks[1].context = MatchHeader(lines[1]).title

\* the parser is about to read a page-marker line
AtPageLine == pc = "parse" /\ li <= Len(lines) /\ IsPageLine(li)

\* C29: a page-marker line changes the current page number and nothing of
\* the header state: the ancestry and the level stay as they are; so two
\* successive sections with no header line between them have the same context
\* and level.
C29_MarkerKeepsContext ==
    /\ [][AtPageLine =>
             /\ current_page_number' = ParseInt(MatchPage(lines[li]).digits)
             /\ UNCHANGED <<current_headers, current_level>>]_vars
    /\ [](\A s \in 1..(Len(sections) - 1) :
             (\A i \in sec_span[s][2]..sec_span[s + 1][1] : ~IsHeaderLine(i))
             => /\ sections[s].context_path = sections[s + 1].context_path
                /\ sections[s].level = sections[s + 1].level)

\* C29 witness: under a header, content before and content after a marker of
\* page 2 came back as two fragments of the same context, on pages 1 and 2
C29_Witness ==
    /\ Done
    /\ \E k \in 1..(Len(chunks) - 1) :
          /\ chunks[k].context # <<>>
          /\ chunks[k + 1].context = chunks[k].context
          /\ chunks[k + 1].level = chunks[k].level
          /\ chunks[k].page_number = 1
          /\ chunks[k + 1].page_number = 2
          /\ IsPageLine(SpanOfChunk(k)[2] + 1)

---------------------------------------------------------------------------
\* process_file has returned
Embedded == embed_pc = "done"

\* C25: once process_file has returned for a file that gave n fragments, there
\* are n points in fragment order; point i carries chunk_index i - 1 counted
\* from 0 and the context, level and page_number of fragment i; its vector is
\* the embedding of that fragment's content as the chunker returned it; the
\* batches upserted, put end to end, are the points list, so every point was
\* sent exactly once, and no batch is empty or longer than batch_size.
C25_PointsAndBatches ==
    Embedded =>
        /\ Len(points) = Len(chunks)
        /\ \A i \in 1..Len(points) :
               /\ points[i].payload.chunk_index = i - 1
               /\ points[i].payload.context = chunks[i].context
               /\ points[i].payload.level = chunks[i].level
               /\ points[i].payload.page_number = chunks[i].page_number
               /\ points[i].vector = Encode(chunks[i].content)
        /\ Concat(upserted) = points
        /\ \A b \in 1..Len(upserted) :
               Len(upserted[b]) >= 1 /\ Len(upserted[b]) <= batch_size

\* five fragments of differing pages and levels, sent as batches of 2, 2 and 1
C25_Witness ==
    /\ Embedded
    /\ Len(chunks) = 5
    /\ batch_size = 2
    /\ Len(upserted) = 3
    /\ Len(upserted[3]) = 1
    /\ \E i, j \in 1..Len(chunks) :
           /\ chunks[i].page_number # chunks[j].page_number
           /\ chunks[i].level # chunks[j].level

---------------------------------------------------------------------------
\* a step of _remove_pii raised
PiiFailed == raised_in \in PiiSteps

---------------------------------------------------------------------------
\* the stages of one PDF, in the order of the try block
StageOrder == <<"ocr", "convert", "clean", "chunk">>

Skipped(name) ==
    CASE name = "ocr"     -> skip_ocr
      [] name = "convert" -> skip_convert
      [] name = "clean"   -> skip_clean
      [] name = "chunk"   -> skip_chunk

\* the stages that are not skipped, in order
EnabledStages == SelectSeq(StageOrder, LAMBDA name : ~Skipped(name))

\* what the log holds of PDF k, in the order it was written
LogOf(k) == SelectSeq(stage_log, LAMBDA e : e[1] = k)

\* the calls of the vectorization in the log
VectorizeCalls == {i \in 1..Len(stage_log) : stage_log[i][2] = "vectorize"}

\* a stage of PDF k raised
PdfRaised(k) == \E i \in 1..Len(LogOf(k)) : LogOf(k)[i][3] = "raised"

\* the loop is done with PDF k
Finished(k) == idx > k

\* run has returned
Returned == run_pc = "done"

\* run got as far as its loop over the PDFs
ReachedLoop == input_dir_exists /\ pdf_files # <<>> /\ (skip_ocr \/ models_ok)

\* the log goes PDF by PDF in the order of the list, and what it holds of a
\* PDF is a beginning of the enabled stages in their order, all of them
\* returned but possibly the last
InStageOrder ==
    /\ \A i, j \in 1..Len(stage_log) \ VectorizeCalls :
           i < j => stage_log[i][1] <= stage_log[j][1]
    /\ \A k \in 1..Len(pdf_files) :
           LET log == LogOf(k)
           IN  /\ Len(log) <= Len(EnabledStages)
               /\ \A i \in 1..Len(log) : log[i][2] = EnabledStages[i]
               /\ \A i \in 1..(Len(log) - 1) : log[i][3] = "ok"

\* a PDF the loop is done with went through all enabled stages, or through
\* those up to the one that raised and no further
FailureSkipsRest ==
    \A k \in 1..Len(pdf_files) :
        Finished(k) => (PdfRaised(k) \/ Len(LogOf(k)) = Len(EnabledStages))

\* the PDFs counted as failed are those of which a stage raised, each once,
\* and the others the loop is done with are counted as successful
CountsOnlyFailed ==
    /\ failed = Len(failed_files)
    /\ \A i, j \in 1..Len(failed_files) : i < j => failed_files[i] < failed_files[j]
    /\ \A k \in 1..Len(pdf_files) :
           Finished(k) => (PdfRaised(k) <=> \E i \in 1..Len(failed_files) : failed_files[i] = k)
    /\ successful = Cardinality({k \in 1..Len(pdf_files) : Finished(k) /\ ~PdfRaised(k)})

\* a run that reached its loop returns only after the loop is done with every PDF
LoopContinues ==
    ReachedLoop /\ run_pc \in {"vectorize", "return", "done"} =>
        \A k \in 1..Len(pdf_files) : Finished(k)

\* the vectorization is called at most once, after the loop, and nothing
\* follows it in the log
VectorizeOnceAtEnd ==
    /\ Cardinality(VectorizeCalls) <= 1
    /\ \A i \in VectorizeCalls :
           i = Len(stage_log) /\ \A k \in 1..Len(pdf_files) : Finished(k)

\* no PDF failed
NoPdfFailed == \A k \in 1..Len(pdf_files) : ~PdfRaised(k)

\* C30 as stated: stage order, a failure skipping the rest of its PDF only, the
\* loop going on, one vectorization at the end, and run returning True exactly
\* when no PDF failed.
C30_ReturnsTrueIffNoPdfFailed ==
    /\ InStageOrder
    /\ FailureSkipsRest
    /\ CountsOnlyFailed
    /\ LoopContinues
    /\ VectorizeOnceAtEnd
    /\ Returned => (run_result = <<TRUE>> <=> NoPdfFailed)

\* C30, amended: as stated, but the return value is True exactly when no PDF
\* failed only for a run that reached its loop or found no PDF; a run whose
\* input directory is missing, or whose OCR models fail to load, returns
\* False with no PDF processed.
C30_PipelineRun ==
    /\ InStageOrder
    /\ FailureSkipsRest
    /\ CountsOnlyFailed
    /\ LoopContinues
    /\ VectorizeOnceAtEnd
    /\ Returned /\ (ReachedLoop \/ (input_dir_exists /\ pdf_files = <<>>)) =>
           (run_result = <<TRUE>> <=> NoPdfFailed)
    /\ Returned /\ ~ReachedLoop /\ ~(input_dir_exists /\ pdf_files = <<>>) =>
           run_result = <<FALSE>> /\ stage_log = <<>>

\* the first PDF failed in its second stage, the second went through all four,
\* the vectorization raised, and run returned False
C30_Witness ==
    /\ Returned
    /\ Len(pdf_files) = 2
    /\ LogOf(1) = <<<<1, "ocr", "ok">>, <<1, "convert", "raised">>>>
    /\ Len(LogOf(2)) = 4
    /\ ~PdfRaised(2)
    /\ stage_log[Len(stage_log)] = <<0, "vectorize", "raised">>
    /\ failed_files = <<1>>
    /\ successful = 1
    /\ run_result = <<FALSE>>

====
